---- MODULE Spec2Model ----
(***************************************************************************)
(* Organizations Directory API (src/ДЗ.py): a FastAPI application over a   *)
(* read-only SQLite store of buildings, activities, organizations and      *)
(* organization-activity link rows.                                        *)
(*                                                                         *)
(* The store is fixed by Init; the behaviour is the life of requests:      *)
(* route match, get_api_key, get_db, parameter validation + handler +      *)
(* response_model serialisation, release of the session.                   *)
(*                                                                         *)
(* Conventions.  Identifiers are positive integers.  NULL stands for SQL   *)
(* NULL / Python None.  An un-ORDERed SELECT returns rows in rowid order   *)
(* (SQLite table scan; INTEGER PRIMARY KEY is the rowid), i.e. ascending   *)
(* id.  Strings that are pattern-matched (organization names, the `name`   *)
(* query parameter) are sequences of one-character strings.  Coordinates   *)
(* are whole units; a radius is given in 1/RadiusScale units so that 4.99  *)
(* is representable.                                                       *)
(***************************************************************************)
EXTENDS Integers, Sequences, FiniteSets, TLC

\* ------------------------------------------------------------------ bounds
MaxAct == 4
MaxOrg == 2
MaxBuilding == 2
MaxTreeDepth == 4
NumClients == 2

\* --------------------------------------------------------------- constants
NULL == -999
API_KEY == "STATIC_API_KEY"
RadiusScale == 100

VARIABLES
    activities,     \* table activities: id -> [id, name, parent_id]
    buildings,      \* table buildings: id -> [id, address, lat, lon]
    organizations,  \* table organizations: id -> [id, name, phones, building_id]
    links,          \* table organization_activities: id -> [id, organization_id, activity_id]
    pc,             \* per client: where its request is
    req,            \* per client: the request being served
    session,        \* per client: the SessionLocal() handle of its request
    queries,        \* per client: db.query(...) executed for its request
    returned,       \* per client: what the handler function returned
    response,       \* per client: the HTTP response
    handles,        \* sessions of SessionLocal that are open
    stack,          \* get_descendants, stepwise: the call stack
    walked,         \* get_descendants, stepwise: ids collected so far
    calls           \* get_descendants, stepwise: calls made so far

store == <<activities, buildings, organizations, links>>
serving == <<pc, req, session, queries, returned, response, handles>>
walk == <<stack, walked, calls>>
vars == <<activities, buildings, organizations, links,
          pc, req, session, queries, returned, response, handles,
          stack, walked, calls>>

Clients == 1..NumClients

\* ----------------------------------------------------------- sequences
RECURSIVE SortedSeq(_)
\* The rows of a result set in retrieval (ascending id) order.
SortedSeq(S) ==
    IF S = {} THEN <<>>
    ELSE LET m == CHOOSE x \in S : \A y \in S : x <= y
         IN <<m>> \o SortedSeq(S \ {m})

Range(s) == {s[i] : i \in 1..Len(s)}

NoDuplicates(s) == \A i, j \in 1..Len(s) : i # j => s[i] # s[j]

RECURSIVE FlatMap(_, _)
\* for x in xs: out.extend(F(x))
FlatMap(F(_), xs) ==
    IF xs = <<>> THEN <<>> ELSE F(Head(xs)) \o FlatMap(F, Tail(xs))

\* ----------------------------------------------------------- store queries
\* db.query(Activity).filter(Activity.parent_id == p).all(); with p = None
\* SQLAlchemy renders "parent_id IS NULL".
ChildrenOf(p) ==
    SortedSeq({a \in DOMAIN activities : activities[a].parent_id = p})

\* db.query(OrganizationActivity.organization_id)
\*   .filter(OrganizationActivity.activity_id.in_(ids)).all()
OrgIdsLinkedTo(ids) ==
    {links[l].organization_id :
        l \in {k \in DOMAIN links : links[k].activity_id \in ids}}

\* db.query(Organization).filter(Organization.id.in_(oids)).all()
OrgsWithIdIn(oids) ==
    SortedSeq({o \in DOMAIN organizations : o \in oids})

\* Building.organizations (relationship, back_populates="building")
OrganizationsOf(b) ==
    SortedSeq({o \in DOMAIN organizations : organizations[o].building_id = b})

\* Organization.activities: relationship("OrganizationActivity"), the link
\* rows of the organization.
ActivitiesRelation(o) ==
    [i \in 1..Len(SortedSeq({l \in DOMAIN links : links[l].organization_id = o}))
        |-> links[SortedSeq({l \in DOMAIN links : links[l].organization_id = o})[i]]]

\* Organization.building: relationship("Building"), None without a row.
BuildingRelation(o) ==
    IF organizations[o].building_id \in DOMAIN buildings
    THEN buildings[organizations[o].building_id]
    ELSE NULL

\* ------------------------------------------------------------ the walker
\* line 123: if depth > 2: return []
DepthExceededOffByOne(depth) == depth > 3

DepthExceeded(depth) == depth > 2

RECURSIVE get_descendants(_, _)
\* search_by_activity_tree.get_descendants(act_id, depth=0): the list ids.
get_descendants(act_id, depth) ==
    IF DepthExceeded(depth) THEN <<>>
    ELSE LET Below(ch) == get_descendants(ch, depth + 1)
         IN <<act_id>> \o FlatMap(Below, ChildrenOf(act_id))

\* line 143: if depth >= max_depth: return []
TreeDepthReachedOffByOne(depth, max_depth) == depth > max_depth

TreeDepthReached(depth, max_depth) == depth >= max_depth

RECURSIVE collect_tree(_, _, _)
\* get_activity_tree.collect_tree(parent_id=None, depth=0): activity ids in
\* emission order (each is ActivityOut.from_orm(act) of an Activity row).
collect_tree(parent_id, depth, max_depth) ==
    IF TreeDepthReached(depth, max_depth) THEN <<>>
    ELSE LET Emit(a) == <<a>> \o collect_tree(a, depth + 1, max_depth)
         IN FlatMap(Emit, ChildrenOf(parent_id))

RECURSIVE collect_tree_queries(_, _, _)
\* The db.query calls collect_tree makes: one per call that is not cut.
collect_tree_queries(parent_id, depth, max_depth) ==
    IF TreeDepthReached(depth, max_depth) THEN 0
    ELSE LET kids == ChildrenOf(parent_id)
             RECURSIVE Sum(_)
             Sum(xs) == IF xs = <<>> THEN 0
                        ELSE collect_tree_queries(Head(xs), depth + 1, max_depth)
                             + Sum(Tail(xs))
         IN 1 + Sum(kids)

\* ------------------------------------------------------------- by radius
\* line 105: ((Building.lat - lat) ** 2 + (Building.lon - lon) ** 2) ** 0.5
\*           <= radius
\* A comparison with a NULL operand is NULL, and the row is filtered out.
\* For radius > 0 (line 102, gt=0) the square root is compared exactly by
\* comparing the squares; radius is in 1/RadiusScale units.
WithinRadius(b, lat, lon, radius) ==
    /\ buildings[b].lat # NULL
    /\ buildings[b].lon # NULL
    /\ ((buildings[b].lat - lat) * (buildings[b].lat - lat)
        + (buildings[b].lon - lon) * (buildings[b].lon - lon))
         * RadiusScale * RadiusScale <= radius * radius

\* --------------------------------------------------------------- by name
\* SQLite lower(): ASCII letters.
Lower(ch) == CASE ch = "A" -> "a" [] ch = "B" -> "b" [] OTHER -> ch

LowerAll(s) == [i \in 1..Len(s) |-> Lower(s[i])]

RECURSIVE LikeMatch(_, _)
\* SQL LIKE: % matches any run of characters, _ any one character.
LikeMatch(pat, s) ==
    IF pat = <<>> THEN s = <<>>
    ELSE IF Head(pat) = "%"
         THEN \/ LikeMatch(Tail(pat), s)
              \/ s # <<>> /\ LikeMatch(pat, Tail(s))
    ELSE /\ s # <<>>
         /\ Head(pat) = "_" \/ Head(pat) = Head(s)
         /\ LikeMatch(Tail(pat), Tail(s))

\* line 136: Organization.name.ilike(f"%{name}%"), rendered for SQLite as
\* lower(name) LIKE lower(pattern).
ILike(orgname, name) ==
    LikeMatch(LowerAll(<<"%">> \o name \o <<"%">>), LowerAll(orgname))

\* -------------------------------------------------------------- requests
\* A path segment: its text, and the integer it parses to (NULL if none).
Lit(text) == [s |-> text, n |-> NULL]

Num(k) == [s |-> "<int>", n |-> k]

NoQuery ==
    [activity_id |-> NULL, name |-> <<>>, lat |-> NULL, lon |-> NULL,
     radius |-> NULL, max_depth |-> NULL]

NoHeader == "<no X-API-Key header>"

Request(segs, q, key) == [segs |-> segs, q |-> q, key |-> key]

\* The routes in the order the decorators register them (lines 90, 95, 101,
\* 112, 119, 134, 140); "{}" is a path parameter (any one segment).
Routes ==
    << [name |-> "orgs_by_building",
        pattern |-> <<"organizations", "by_building", "{}">>],
       [name |-> "orgs_by_activity",
        pattern |-> <<"organizations", "by_activity", "{}">>],
       [name |-> "orgs_by_location",
        pattern |-> <<"organizations", "by_location">>],
       [name |-> "get_organization",
        pattern |-> <<"organizations", "{}">>],
       [name |-> "search_by_activity_tree",
        pattern |-> <<"activities", "search">>],
       [name |-> "orgs_by_name",
        pattern |-> <<"organizations", "search">>],
       [name |-> "get_activity_tree",
        pattern |-> <<"activities", "tree">>] >>

Matches(pattern, segs) ==
    /\ Len(pattern) = Len(segs)
    /\ \A i \in 1..Len(pattern) : pattern[i] = "{}" \/ pattern[i] = segs[i].s

\* The router serves a request by the first registered route that matches.
Route(r) ==
    LET hits == {i \in 1..Len(Routes) : Matches(Routes[i].pattern, r.segs)}
    IN Routes[CHOOSE i \in hits : \A j \in hits : i <= j].name

\* --------------------------------------------------------- get_api_key
\* A check that lets a request without the header through.
KeyRejectedUnlessAbsent(key) == key # NoHeader /\ key # API_KEY

\* api_key_header (APIKeyHeader, auto_error) rejects an absent header;
\* line 77 rejects any key other than API_KEY.
KeyRejected(key) == key = NoHeader \/ key # API_KEY

\* -------------------------------------------------------------- get_db
\* yield db followed by db.close() without try/finally: the close is
\* skipped when the request fails.
get_db_exit_no_finally(status) == IF status = 200 THEN "closed" ELSE "open"

\* lines 83-86: try: yield db  finally: db.close()
get_db_exit(status) == "closed"

\* ------------------------------------------------------ response models
\* ActivityOut (orm_mode): id and name are required attributes of the
\* object, parent_id is optional.
ActivityOut_from_orm(obj) ==
    IF {"id", "name"} \subseteq DOMAIN obj
    THEN [ok |-> TRUE,
          value |-> [id |-> obj.id, name |-> obj.name,
                     parent_id |-> IF "parent_id" \in DOMAIN obj
                                   THEN obj.parent_id ELSE NULL]]
    ELSE [ok |-> FALSE]

\* BuildingOut (orm_mode)
BuildingOut_from_orm(obj) ==
    [id |-> obj.id, address |-> obj.address, lat |-> obj.lat, lon |-> obj.lon]

\* OrganizationOut (orm_mode): phones: str and building: BuildingOut are
\* required and not Optional; activities: List[ActivityOut] is read from
\* Organization.activities.
OrganizationOut_from_orm(o) ==
    LET rows == ActivitiesRelation(o)
        outs == [i \in 1..Len(rows) |-> ActivityOut_from_orm(rows[i])]
    IN IF /\ organizations[o].phones # NULL
          /\ organizations[o].building_id \in DOMAIN buildings
          /\ \A i \in 1..Len(outs) : outs[i].ok
       THEN [ok |-> TRUE,
             value |-> [id |-> o,
                        name |-> organizations[o].name,
                        phones |-> organizations[o].phones,
                        building |-> BuildingOut_from_orm(BuildingRelation(o)),
                        activities |-> [i \in 1..Len(outs) |-> outs[i].value]]]
       ELSE [ok |-> FALSE]

NoResponse == [status |-> 0, kind |-> "none", body |-> <<>>]

ErrorResponse(code) == [status |-> code, kind |-> "error", body |-> <<>>]

\* response_model=List[OrganizationOut]: a validation error is a 500.
OrganizationListResponse(orgs) ==
    LET outs == [i \in 1..Len(orgs) |-> OrganizationOut_from_orm(orgs[i])]
    IN IF \A i \in 1..Len(outs) : outs[i].ok
       THEN [status |-> 200, kind |-> "list",
             body |-> [i \in 1..Len(outs) |-> outs[i].value]]
       ELSE ErrorResponse(500)

\* response_model=OrganizationOut
OrganizationResponse(o) ==
    IF OrganizationOut_from_orm(o).ok
    THEN [status |-> 200, kind |-> "object",
          body |-> <<OrganizationOut_from_orm(o).value>>]
    ELSE ErrorResponse(500)

\* response_model=List[ActivityOut], built from Activity rows (line 147)
ActivityListResponse(acts) ==
    LET outs == [i \in 1..Len(acts) |-> ActivityOut_from_orm(activities[acts[i]])]
    IN IF \A i \in 1..Len(outs) : outs[i].ok
       THEN [status |-> 200, kind |-> "list",
             body |-> [i \in 1..Len(outs) |-> outs[i].value]]
       ELSE ErrorResponse(500)

\* ------------------------------------------------------------- handlers
\* What a handler call comes to: the exception it raised (0: none), what it
\* returned (organization ids, or activity ids for the tree), the queries
\* it ran.
NoReturn == [exc |-> 0, called |-> "none", orgs |-> <<>>, acts |-> <<>>]

Returned(fn, orgs) == [exc |-> 0, called |-> fn, orgs |-> orgs, acts |-> <<>>]

\* lines 91-93
orgs_by_building(building_id) ==
    Returned("orgs_by_building",
             SortedSeq({o \in DOMAIN organizations :
                           organizations[o].building_id = building_id}))

\* lines 96-99
orgs_by_activity(activity_id) ==
    Returned("orgs_by_activity",
             OrgsWithIdIn(OrgIdsLinkedTo({activity_id})))

\* lines 102-110
orgs_by_location(lat, lon, radius) ==
    Returned("orgs_by_location",
             FlatMap(OrganizationsOf,
                     SortedSeq({b \in DOMAIN buildings :
                                   WithinRadius(b, lat, lon, radius)})))

\* lines 113-117
get_organization(org_id) ==
    IF org_id \in DOMAIN organizations
    THEN Returned("get_organization", <<org_id>>)
    ELSE [exc |-> 404, called |-> "get_organization", orgs |-> <<>>, acts |-> <<>>]

\* lines 120-132
search_by_activity_tree(activity_id) ==
    Returned("search_by_activity_tree",
             OrgsWithIdIn(OrgIdsLinkedTo(Range(get_descendants(activity_id, 0)))))

\* lines 135-137
orgs_by_name(name) ==
    Returned("orgs_by_name",
             SortedSeq({o \in DOMAIN organizations :
                           ILike(organizations[o].name, name)}))

\* lines 141-150
get_activity_tree(max_depth) ==
    [exc |-> 0, called |-> "get_activity_tree", orgs |-> <<>>,
     acts |-> collect_tree(NULL, 0, max_depth)]

\* Parameter validation of the matched route (422 when it fails).
ParamsValid(route, r) ==
    CASE route \in {"orgs_by_building", "orgs_by_activity"} -> r.segs[3].n # NULL
      [] route = "orgs_by_location" ->
            /\ r.q.lat # NULL /\ r.q.lon # NULL /\ r.q.radius # NULL
            /\ r.q.radius > 0
      [] route = "get_organization" -> r.segs[2].n # NULL
      [] route = "search_by_activity_tree" -> r.q.activity_id # NULL
      [] OTHER -> TRUE

\* line 141: max_depth: int = 3
MaxDepthOf(r) == IF r.q.max_depth = NULL THEN 3 ELSE r.q.max_depth

Call(route, r) ==
    CASE route = "orgs_by_building" -> orgs_by_building(r.segs[3].n)
      [] route = "orgs_by_activity" -> orgs_by_activity(r.segs[3].n)
      [] route = "orgs_by_location" ->
            orgs_by_location(r.q.lat, r.q.lon, r.q.radius)
      [] route = "get_organization" -> get_organization(r.segs[2].n)
      [] route = "search_by_activity_tree" ->
            search_by_activity_tree(r.q.activity_id)
      [] route = "orgs_by_name" -> orgs_by_name(r.q.name)
      [] route = "get_activity_tree" -> get_activity_tree(MaxDepthOf(r))

\* The db.query calls of a handler call.
QueriesOf(route, r) ==
    CASE route \in {"orgs_by_building", "orgs_by_location",
                    "get_organization", "orgs_by_name"} -> 1
      [] route = "orgs_by_activity" -> 2
      [] route = "search_by_activity_tree" ->
            Len(get_descendants(r.q.activity_id, 0)) + 2
      [] route = "get_activity_tree" ->
            collect_tree_queries(NULL, 0, MaxDepthOf(r))

\* The response FastAPI builds from what the handler did.
ResponseOf(route, ret) ==
    IF ret.exc # 0 THEN ErrorResponse(ret.exc)
    ELSE CASE route = "get_organization" -> OrganizationResponse(ret.orgs[1])
           [] route = "get_activity_tree" -> ActivityListResponse(ret.acts)
           [] OTHER -> OrganizationListResponse(ret.orgs)

\* ---------------------------------------------------- the life of a request
\* A client sends a request drawn from R.
Receive(c, R) ==
    /\ pc[c] = "idle"
    /\ \E r \in R : req' = [req EXCEPT ![c] = r]
    /\ pc' = [pc EXCEPT ![c] = "routed"]
    /\ UNCHANGED <<store, session, queries, returned, response, handles, walk>>

\* dependencies=[Depends(get_api_key)] is solved first; its HTTPException
\* ends the request before get_db or the handler runs.
Authenticate(c) ==
    /\ pc[c] = "routed"
    /\ IF KeyRejected(req[c].key)
       THEN /\ response' = [response EXCEPT ![c] = ErrorResponse(403)]
            /\ pc' = [pc EXCEPT ![c] = "done"]
       ELSE /\ pc' = [pc EXCEPT ![c] = "authed"]
            /\ UNCHANGED response
    /\ UNCHANGED <<store, req, session, queries, returned, handles, walk>>

\* get_db, line 82: db = SessionLocal(); yield db
OpenSession(c) ==
    /\ pc[c] = "authed"
    /\ session' = [session EXCEPT ![c] = "open"]
    /\ handles' = handles + 1
    /\ pc' = [pc EXCEPT ![c] = "open"]
    /\ UNCHANGED <<store, req, queries, returned, response, walk>>

\* Parameter validation, the handler, and the response_model serialisation.
Handle(c) ==
    /\ pc[c] = "open"
    /\ LET route == Route(req[c])
       IN IF ~ParamsValid(route, req[c])
          THEN /\ response' = [response EXCEPT ![c] = ErrorResponse(422)]
               /\ UNCHANGED <<queries, returned>>
          ELSE /\ returned' = [returned EXCEPT ![c] = Call(route, req[c])]
               /\ queries' = [queries EXCEPT ![c] = QueriesOf(route, req[c])]
               /\ response' = [response EXCEPT
                                 ![c] = ResponseOf(route, Call(route, req[c]))]
    /\ pc' = [pc EXCEPT ![c] = "responded"]
    /\ UNCHANGED <<store, req, session, handles, walk>>

\* The store fails under the handler's first query (the file is locked or
\* gone): the exception propagates as a 500.
StoreFailure(c) ==
    /\ pc[c] = "open"
    /\ ParamsValid(Route(req[c]), req[c])
    /\ queries' = [queries EXCEPT ![c] = 1]
    /\ response' = [response EXCEPT ![c] = ErrorResponse(500)]
    /\ pc' = [pc EXCEPT ![c] = "responded"]
    /\ UNCHANGED <<store, req, session, returned, handles, walk>>

\* get_db, lines 85-86: the generator is resumed when the request ends.
CloseSession(c) ==
    /\ pc[c] = "responded"
    /\ session' = [session EXCEPT ![c] = get_db_exit(response[c].status)]
    /\ handles' = IF get_db_exit(response[c].status) = "closed"
                  THEN handles - 1 ELSE handles
    /\ pc' = [pc EXCEPT ![c] = "done"]
    /\ UNCHANGED <<store, req, queries, returned, response, walk>>

\* The client has read the response and may send its next request.
Forget(c) ==
    /\ pc[c] = "done"
    /\ pc' = [pc EXCEPT ![c] = "idle"]
    /\ req' = [req EXCEPT ![c] = Request(<<>>, NoQuery, NoHeader)]
    /\ session' = [session EXCEPT ![c] = "none"]
    /\ queries' = [queries EXCEPT ![c] = 0]
    /\ returned' = [returned EXCEPT ![c] = NoReturn]
    /\ response' = [response EXCEPT ![c] = NoResponse]
    /\ UNCHANGED <<store, handles, walk>>

\* ------------------------------------------- get_descendants, step by step
\* A frame is a call of get_descendants that is iterating over its
\* children: [act_id, depth, todo].
CallDescendants(act_id, depth, below) ==
    /\ calls' = calls + 1
    /\ IF DepthExceeded(depth)
       THEN /\ stack' = below
            /\ UNCHANGED walked
       ELSE /\ stack' = below \o <<[act_id |-> act_id, depth |-> depth,
                                    todo |-> ChildrenOf(act_id)]>>
            /\ walked' = Append(walked, act_id)

\* line 129: ids = get_descendants(activity_id)
WalkStart ==
    /\ calls = 0
    /\ \E a \in 1..(Cardinality(DOMAIN activities) + 1) :
          CallDescendants(a, 0, <<>>)
    /\ UNCHANGED <<store, serving>>

\* lines 126-127: the next child of the innermost call
WalkChild ==
    /\ stack # <<>>
    /\ stack[Len(stack)].todo # <<>>
    /\ LET top == stack[Len(stack)]
       IN CallDescendants(Head(top.todo), top.depth + 1,
                          [stack EXCEPT ![Len(stack)].todo = Tail(top.todo)])
    /\ UNCHANGED <<store, serving>>

\* line 128: return ids
WalkReturn ==
    /\ stack # <<>>
    /\ stack[Len(stack)].todo = <<>>
    /\ stack' = SubSeq(stack, 1, Len(stack) - 1)
    /\ UNCHANGED <<walked, calls, store, serving>>

WalkDone == calls > 0 /\ stack = <<>>

\* ------------------------------------------------------------------ stores
ActivityRow(a, p) == [id |-> a, name |-> <<"activity", a>>, parent_id |-> p]

BuildingRow(b, lat, lon) ==
    [id |-> b, address |-> <<"address", b>>, lat |-> lat, lon |-> lon]

OrganizationRow(o, name, phones, b) ==
    [id |-> o, name |-> name, phones |-> phones, building_id |-> b]

LinkRow(l, o, a) == [id |-> l, organization_id |-> o, activity_id |-> a]

\* The link table holding the rows pairs[1], pairs[2], ... (rowid order);
\* its ids do not coincide with the activity ids.
LinkTable(pairs) ==
    [l \in {10 + i : i \in 1..Len(pairs)} |->
        LinkRow(l, pairs[l - 10][1], pairs[l - 10][2])]

\* Every parent_id assignment over the activities 1..n, cycles included
\* (the foreign key is not enforced).
ActivityTables(n) ==
    {[a \in 1..n |-> ActivityRow(a, f[a])] : f \in [1..n -> {NULL} \cup 1..n]}

\* 1 <- 2 <- 3 <- ... <- n
Chain(n) == [a \in 1..n |-> ActivityRow(a, IF a = 1 THEN NULL ELSE a - 1)]

Coordinates == {0, 3, 4, NULL}

OrgNames == << <<"A", "b">>, <<"c">>, <<"b", "A">> >>

NameOf(o) == OrgNames[((o - 1) % Len(OrgNames)) + 1]

InitServing ==
    /\ pc = [c \in Clients |-> "idle"]
    /\ req = [c \in Clients |-> Request(<<>>, NoQuery, NoHeader)]
    /\ session = [c \in Clients |-> "none"]
    /\ queries = [c \in Clients |-> 0]
    /\ returned = [c \in Clients |-> NoReturn]
    /\ response = [c \in Clients |-> NoResponse]
    /\ handles = 0

InitWalk ==
    /\ stack = <<>>
    /\ walked = <<>>
    /\ calls = 0

\* ------------------------------------------------------------ request sets
Keys == {API_KEY, "WRONG_KEY", NoHeader}

ByBuildingPath(seg) == <<Lit("organizations"), Lit("by_building"), seg>>

ByActivityPath(seg) == <<Lit("organizations"), Lit("by_activity"), seg>>

ByLocationPath == <<Lit("organizations"), Lit("by_location")>>

OrganizationPath(seg) == <<Lit("organizations"), seg>>

ActivitySearchPath == <<Lit("activities"), Lit("search")>>

ActivityTreePath == <<Lit("activities"), Lit("tree")>>

NamePatterns == { <<>>, <<"a">>, <<"B">>, <<"a", "b">>, <<"_">>, <<"z">> }

Radii == {0, 499, 500}

Centres == {<<0, 0>>, <<3, 0>>}

ByActivityRequests(ids, keys) ==
    {Request(ByActivityPath(Num(a)), NoQuery, k) : a \in ids, k \in keys}

ActivitySearchRequests(ids, keys) ==
    {Request(ActivitySearchPath, [NoQuery EXCEPT !.activity_id = a], k) :
        a \in ids, k \in keys}

ActivityTreeRequests(depths, keys) ==
    {Request(ActivityTreePath, [NoQuery EXCEPT !.max_depth = d], k) :
        d \in depths, k \in keys}

ByLocationRequests(keys) ==
    {Request(ByLocationPath,
             [NoQuery EXCEPT !.lat = p[1], !.lon = p[2], !.radius = r], k) :
        p \in Centres, r \in Radii, k \in keys}

ByBuildingRequests(keys) ==
    {Request(ByBuildingPath(seg), NoQuery, k) :
        seg \in {Num(b) : b \in 1..(MaxBuilding + 1)} \cup {Lit("x")},
        k \in keys}

OrganizationRequests(keys) ==
    {Request(OrganizationPath(Num(o)), NoQuery, k) :
        o \in 1..(MaxOrg + 1), k \in keys}

\* GET /organizations/search?name=s
ByNameRequests(keys) ==
    {Request(OrganizationPath(Lit("search")), [NoQuery EXCEPT !.name = s], k) :
        s \in NamePatterns, k \in keys}

TreeDepths == {NULL, -1} \cup 0..MaxTreeDepth

AllRequests ==
    ByBuildingRequests(Keys)
    \cup ByActivityRequests(1..(MaxAct + 1), Keys)
    \cup ByLocationRequests(Keys)
    \cup OrganizationRequests(Keys)
    \cup ActivitySearchRequests({NULL} \cup 1..(MaxAct + 1), Keys)
    \cup ByNameRequests(Keys)
    \cup ActivityTreeRequests(TreeDepths, Keys)

WalkRequests ==
    ByActivityRequests(1..(MaxAct + 1), {API_KEY})
    \cup ActivitySearchRequests(1..(MaxAct + 1), {API_KEY})

TreeRequests == ActivityTreeRequests(TreeDepths, {API_KEY})

GeoRequests == ByLocationRequests({API_KEY})

ConcurrentRequests ==
    OrganizationRequests({API_KEY, NoHeader})
    \cup ByLocationRequests({API_KEY})

\* ------------------------------------------------------------ specifications
\* The directory: the chain 1 <- 2 <- ... of activities, building 1 at
\* (0,0) and the others at (3,4), organization 1 in building 1 with phones,
\* the other organizations with or without phones and building, and up to
\* two link rows of organization 1.
DirectoryStores ==
    /\ activities = Chain(MaxAct)
    /\ buildings = [b \in 1..MaxBuilding |->
                      IF b = 1 THEN BuildingRow(b, 0, 0) ELSE BuildingRow(b, 3, 4)]
    /\ \E ph \in {1, NULL}, bl \in {MaxBuilding, NULL} :
          organizations = [o \in 1..MaxOrg |->
              IF o = 1 THEN OrganizationRow(o, NameOf(o), 1, 1)
              ELSE OrganizationRow(o, NameOf(o), ph, bl)]
    /\ \E pairs \in { <<>>, << <<1, 2>> >>, << <<1, 2>>, <<1, MaxAct>> >>,
                      << <<MaxOrg, 1>> >> } :
          links = LinkTable(pairs)

Init == DirectoryStores /\ InitServing /\ InitWalk

Next ==
    \/ Receive(1, AllRequests)
    \/ Authenticate(1)
    \/ OpenSession(1)
    \/ Handle(1)
    \/ CloseSession(1)
    \/ Forget(1)

Spec == Init /\ [][Next]_vars

\* Concurrent clients over one directory; the store may fail under a handler.
InitConcurrent ==
    /\ activities = Chain(MaxAct)
    /\ buildings = [b \in 1..MaxBuilding |-> BuildingRow(b, 0, 0)]
    /\ organizations = [o \in 1..MaxOrg |-> OrganizationRow(o, NameOf(o), 1, 1)]
    /\ links = LinkTable(<< <<1, 2>> >>)
    /\ InitServing /\ InitWalk

NextConcurrent ==
    \E c \in Clients :
        \/ Receive(c, ConcurrentRequests)
        \/ Authenticate(c)
        \/ OpenSession(c)
        \/ Handle(c)
        \/ StoreFailure(c)
        \/ CloseSession(c)
        \/ Forget(c)

SpecConcurrent == InitConcurrent /\ [][NextConcurrent]_vars

\* Every activity hierarchy; organization 1 linked to one activity,
\* the last organization to none or to the first and the last activity.
InitHierarchy ==
    /\ activities \in ActivityTables(MaxAct)
    /\ buildings = [b \in 1..MaxBuilding |-> BuildingRow(b, 0, 0)]
    /\ organizations = [o \in 1..MaxOrg |-> OrganizationRow(o, NameOf(o), 1, 1)]
    /\ \E a \in 1..MaxAct, more \in {<<>>, << <<MaxOrg, 1>>, <<MaxOrg, MaxAct>> >>} :
          links = LinkTable(<< <<1, a>> >> \o more)
    /\ InitServing /\ InitWalk

NextHierarchy ==
    \/ Receive(1, WalkRequests)
    \/ Authenticate(1)
    \/ OpenSession(1)
    \/ Handle(1)
    \/ CloseSession(1)
    \/ Forget(1)

SpecHierarchy == InitHierarchy /\ [][NextHierarchy]_vars

\* Every activity hierarchy, rendered as a forest.
InitTree ==
    /\ activities \in ActivityTables(MaxAct)
    /\ buildings = <<>>
    /\ organizations = <<>>
    /\ links = <<>>
    /\ InitServing /\ InitWalk

NextTree ==
    \/ Receive(1, TreeRequests)
    \/ Authenticate(1)
    \/ OpenSession(1)
    \/ Handle(1)
    \/ CloseSession(1)
    \/ Forget(1)

SpecTree == InitTree /\ [][NextTree]_vars

\* Every placement of the buildings; organization o in building o (the
\* organizations past the last building in none), organization 1 with or
\* without a link row.
InitGeo ==
    /\ activities = Chain(MaxAct)
    /\ buildings \in {[b \in 1..MaxBuilding |-> BuildingRow(b, la[b], lo[b])] :
                         la \in [1..MaxBuilding -> Coordinates],
                         lo \in [1..MaxBuilding -> Coordinates]}
    /\ organizations = [o \in 1..MaxOrg |->
          OrganizationRow(o, NameOf(o), 1, IF o <= MaxBuilding THEN o ELSE NULL)]
    /\ \E pairs \in {<<>>, << <<1, 1>> >>} : links = LinkTable(pairs)
    /\ InitServing /\ InitWalk

NextGeo ==
    \/ Receive(1, GeoRequests)
    \/ Authenticate(1)
    \/ OpenSession(1)
    \/ Handle(1)
    \/ CloseSession(1)
    \/ Forget(1)

SpecGeo == InitGeo /\ [][NextGeo]_vars

\* get_descendants step by step over every hierarchy of MaxAct activities
\* and every start id (one past the last activity included).
InitDescend ==
    /\ activities \in ActivityTables(MaxAct)
    /\ buildings = <<>>
    /\ organizations = <<>>
    /\ links = <<>>
    /\ InitServing /\ InitWalk

NextDescend == WalkStart \/ WalkChild \/ WalkReturn

SpecDescend == InitDescend /\ [][NextDescend]_vars

\* Fair runs of the walk: a running call goes on to its next statement.
FairSpecDescend == SpecDescend /\ WF_vars(NextDescend)

\* ======================================================================
\* Properties
\* ======================================================================
Answered(c) == pc[c] \in {"responded", "done"}

ValidKey(c) == req[c].key = API_KEY

PathIs(c, segs) == req[c].segs = segs

\* The organization ids a response lists.
BodyIds(c) == [i \in 1..Len(response[c].body) |-> response[c].body[i].id]

ParentOf(a) == activities[a].parent_id

\* A itself and the activities 1 or 2 child steps below it.
WithinTwoSteps(A) ==
    {A} \cup {a \in DOMAIN activities : ParentOf(a) = A}
        \cup {a \in DOMAIN activities :
                 ParentOf(a) \in DOMAIN activities /\ ParentOf(ParentOf(a)) = A}

\* The organizations with at least one link row to an activity of ids.
LinkedOrganizations(ids) ==
    {o \in DOMAIN organizations :
        \E l \in DOMAIN links :
            links[l].organization_id = o /\ links[l].activity_id \in ids}

\* ---------------------------------------------------------------- C1
\* What search_by_activity_tree itself computes: the filter is A plus the
\* activities 1 or 2 child steps below it, and the organizations it selects
\* are those linked to that set.
SearchSelectsWithinTwoSteps ==
    \A c \in Clients :
        (Answered(c) /\ returned[c].called = "search_by_activity_tree") =>
            /\ Range(get_descendants(req[c].q.activity_id, 0))
                 = WithinTwoSteps(req[c].q.activity_id)
            /\ Range(returned[c].orgs)
                 = LinkedOrganizations(WithinTwoSteps(req[c].q.activity_id))
            /\ NoDuplicates(returned[c].orgs)

\* C1: GET /activities/search?activity_id=A returns exactly the
\* organizations that have a link to A or to an activity 1 or 2 child steps
\* below A (and none linked only deeper).
C1_SearchReturnsLinkedWithinTwoSteps ==
    \A c \in Clients :
        (/\ Answered(c) /\ ValidKey(c)
         /\ PathIs(c, ActivitySearchPath)
         /\ req[c].q.activity_id # NULL) =>
            /\ response[c].status = 200
            /\ Range(BodyIds(c))
                 = LinkedOrganizations(WithinTwoSteps(req[c].q.activity_id))

\* ---------------------------------------------------------------- C5
\* C5: /organizations/by_activity/{A} selects the organizations linked to A
\* or to a descendant of A within the depth bound, the set /activities/search
\* selects for A.
C5_ByActivityCoversDescendants ==
    \A c \in Clients :
        (Answered(c) /\ returned[c].called = "orgs_by_activity") =>
            Range(returned[c].orgs)
              = Range(search_by_activity_tree(req[c].segs[3].n).orgs)

\* What orgs_by_activity computes: the organizations linked to A itself.
ByActivitySelectsDirectLinks ==
    \A c \in Clients :
        (Answered(c) /\ returned[c].called = "orgs_by_activity") =>
            Range(returned[c].orgs) = LinkedOrganizations({req[c].segs[3].n})

\* ---------------------------------------------------------------- C2
SquaredDistance(x1, y1, x2, y2) == (x1 - x2) * (x1 - x2) + (y1 - y2) * (y1 - y2)

\* The organizations whose building has both coordinates and lies within
\* the radius (boundary included) of (lat, lon).
OrganizationsWithin(lat, lon, radius) ==
    {o \in DOMAIN organizations :
        \E b \in DOMAIN buildings :
            /\ organizations[o].building_id = b
            /\ buildings[b].lat # NULL /\ buildings[b].lon # NULL
            /\ ~(radius * radius
                    < SquaredDistance(buildings[b].lat, buildings[b].lon, lat, lon)
                      * RadiusScale * RadiusScale)}

\* What orgs_by_location itself computes.
ByLocationSelectsWithinRadius ==
    \A c \in Clients :
        (Answered(c) /\ returned[c].called = "orgs_by_location") =>
            /\ Range(returned[c].orgs)
                 = OrganizationsWithin(req[c].q.lat, req[c].q.lon, req[c].q.radius)
            /\ NoDuplicates(returned[c].orgs)

\* C2: /organizations/by_location with radius > 0 returns exactly the
\* organizations of the buildings that have both coordinates and lie at a
\* Euclidean distance <= radius.
C2_ByLocationReturnsWithinRadius ==
    \A c \in Clients :
        (/\ Answered(c) /\ ValidKey(c)
         /\ PathIs(c, ByLocationPath)
         /\ req[c].q.radius > 0) =>
            /\ response[c].status = 200
            /\ Range(BodyIds(c))
                 = OrganizationsWithin(req[c].q.lat, req[c].q.lon, req[c].q.radius)

\* ---------------------------------------------------------------- C3
\* The activities an organization is linked to, as ActivityOut values.
LinkedActivitiesOut(o) ==
    {[id |-> a, name |-> activities[a].name, parent_id |-> activities[a].parent_id] :
        a \in {x \in DOMAIN activities :
                  \E l \in DOMAIN links :
                      links[l].organization_id = o /\ links[l].activity_id = x}}

\* C3: every organization a handler returns is serialised successfully, its
\* 'activities' being the linked activities (their own id, name, parent_id)
\* and its 'building' the referenced building.
C3_OrganizationsSerialisedWithActivities ==
    \A c \in Clients :
        (Answered(c) /\ returned[c].exc = 0 /\ returned[c].orgs # <<>>) =>
            /\ response[c].status = 200
            /\ Len(response[c].body) = Len(returned[c].orgs)
            /\ \A i \in 1..Len(response[c].body) :
                  /\ response[c].body[i].id = returned[c].orgs[i]
                  /\ Range(response[c].body[i].activities)
                       = LinkedActivitiesOut(returned[c].orgs[i])
                  /\ response[c].body[i].building.id
                       = organizations[returned[c].orgs[i]].building_id

\* What the serialisation does: an organization with a link row, without
\* phones or without a building makes the whole response a 500; the others
\* are listed with an empty 'activities'.
SerialisationFailsOnLinkRows ==
    \A c \in Clients :
        (Answered(c) /\ returned[c].exc = 0 /\ returned[c].orgs # <<>>) =>
            LET bad == {o \in Range(returned[c].orgs) :
                           \/ \E l \in DOMAIN links : links[l].organization_id = o
                           \/ organizations[o].phones = NULL
                           \/ organizations[o].building_id = NULL}
            IN IF bad # {}
               THEN response[c] = ErrorResponse(500)
               ELSE /\ response[c].status = 200
                    /\ \A i \in 1..Len(response[c].body) :
                          response[c].body[i].activities = <<>>

\* ---------------------------------------------------------------- C4
\* s occurs in t, letter case ignored.
ContainsIgnoringCase(t, s) ==
    \E k \in 0..(Len(t) - Len(s)) :
        \A i \in 1..Len(s) : Lower(t[k + i]) = Lower(s[i])

\* C4: GET /organizations/search?name=s with a valid key is served by
\* orgs_by_name and returns exactly the organizations whose name contains s,
\* case-insensitively (all of them for the empty s).
C4_SearchByNameIsServedByOrgsByName ==
    \A c \in Clients :
        (/\ Answered(c) /\ ValidKey(c)
         /\ PathIs(c, OrganizationPath(Lit("search")))) =>
            /\ returned[c].called = "orgs_by_name"
            /\ Range(returned[c].orgs)
                 = {o \in DOMAIN organizations :
                       ContainsIgnoringCase(organizations[o].name, req[c].q.name)}

\* What the router does with it: get_organization is registered first,
\* "search" is no integer, and the answer is a 422.
SearchByNameIsShadowed ==
    \A c \in Clients :
        (/\ Answered(c) /\ ValidKey(c)
         /\ PathIs(c, OrganizationPath(Lit("search")))) =>
            /\ Route(req[c]) = "get_organization"
            /\ returned[c] = NoReturn
            /\ response[c] = ErrorResponse(422)

\* ---------------------------------------------------------------- C7
\* C7: by-id on an id that matches no organization is a 404 (no list, no
\* failure); a list-returning operation whose predicate matches nothing
\* answers 200 with the empty list.
C7_NotFoundAndEmptyLists ==
    \A c \in Clients :
        (Answered(c) /\ ValidKey(c)) =>
            /\ (/\ Len(req[c].segs) = 2
                /\ req[c].segs[1].s = "organizations"
                /\ req[c].segs[2].n # NULL
                /\ req[c].segs[2].n \notin DOMAIN organizations) =>
                   response[c] = ErrorResponse(404)
            /\ (/\ returned[c].called \notin {"none", "get_organization"}
                /\ returned[c].orgs = <<>>
                /\ returned[c].acts = <<>>) =>
                   response[c] = [status |-> 200, kind |-> "list", body |-> <<>>]
            /\ (/\ PathIs(c, OrganizationPath(Lit("search")))
                /\ \A o \in DOMAIN organizations :
                      ~ContainsIgnoringCase(organizations[o].name, req[c].q.name)) =>
                   response[c] = [status |-> 200, kind |-> "list", body |-> <<>>]

\* C7 with the by-name operation left out: it holds of the six routes that
\* are reachable.
NotFoundAndEmptyListsOnReachableRoutes ==
    \A c \in Clients :
        (Answered(c) /\ ValidKey(c)) =>
            /\ (/\ Len(req[c].segs) = 2
                /\ req[c].segs[1].s = "organizations"
                /\ req[c].segs[2].n # NULL
                /\ req[c].segs[2].n \notin DOMAIN organizations) =>
                   response[c] = ErrorResponse(404)
            /\ (/\ returned[c].called \notin {"none", "get_organization"}
                /\ returned[c].orgs = <<>>
                /\ returned[c].acts = <<>>) =>
                   response[c] = [status |-> 200, kind |-> "list", body |-> <<>>]

\* orgs_by_name called directly (as a unit test would): the organizations
\* whose name contains s, for every s that holds no LIKE wildcard.
OrgsByNameMatchesSubstring ==
    \A s \in NamePatterns :
        (\A i \in 1..Len(s) : s[i] \notin {"_", "%"}) =>
            Range(orgs_by_name(s).orgs)
              = {o \in DOMAIN organizations :
                    ContainsIgnoringCase(organizations[o].name, s)}

\* The same for every s: "_" is a LIKE wildcard and matches names that hold
\* no underscore.
OrgsByNameMatchesSubstringAlways ==
    \A s \in NamePatterns :
        Range(orgs_by_name(s).orgs)
          = {o \in DOMAIN organizations :
                ContainsIgnoringCase(organizations[o].name, s)}

\* ---------------------------------------------------------------- C6
RECURSIVE PathFromRoot(_, _)
\* The ids from a root down to a, or <<>> when a hangs under no root (its
\* parent chain runs into a cycle or a missing row); k bounds the climb.
PathFromRoot(a, k) ==
    IF k = 0 \/ a \notin DOMAIN activities THEN <<>>
    ELSE IF ParentOf(a) = NULL THEN <<a>>
    ELSE LET up == PathFromRoot(ParentOf(a), k - 1)
         IN IF up = <<>> THEN <<>> ELSE Append(up, a)

RootPath(a) == PathFromRoot(a, Cardinality(DOMAIN activities))

\* The activities at depth < max_depth below a root (a root has depth 0).
ShallowerThan(max_depth) ==
    {a \in DOMAIN activities :
        RootPath(a) # <<>> /\ Len(RootPath(a)) - 1 < max_depth}

\* Depth-first pre-order with siblings in ascending id: p is a proper
\* prefix of q, or p is smaller where they first differ.
Precedes(p, q) ==
    \/ Len(p) < Len(q) /\ \A i \in 1..Len(p) : p[i] = q[i]
    \/ \E k \in 1..Len(p) :
          /\ k <= Len(q)
          /\ p[k] < q[k]
          /\ \A i \in 1..(k - 1) : p[i] = q[i]

TreeAnswered(c) ==
    Answered(c) /\ ValidKey(c) /\ PathIs(c, ActivityTreePath)

\* C6: /activities/tree answers with exactly the activities of depth
\* < max_depth below a root, each once, as ActivityOut values, in
\* depth-first pre-order with siblings in retrieval order; nothing for
\* max_depth <= 0 and exactly the roots for max_depth = 1.
C6_TreeIsPreorderBelowMaxDepth ==
    \A c \in Clients :
        TreeAnswered(c) =>
            LET md == MaxDepthOf(req[c])
                out == response[c].body
            IN /\ response[c].status = 200
               /\ response[c].kind = "list"
               /\ {out[i].id : i \in 1..Len(out)} = ShallowerThan(md)
               /\ \A i \in 1..Len(out) :
                     out[i] = [id |-> out[i].id,
                               name |-> activities[out[i].id].name,
                               parent_id |-> ParentOf(out[i].id)]
               /\ \A i, j \in 1..Len(out) :
                     i < j => Precedes(RootPath(out[i].id), RootPath(out[j].id))
               /\ md <= 0 => out = <<>>
               /\ md = 1 => BodyIds(c) = ChildrenOf(NULL)

\* A rendering at max_depth = 2 of a hierarchy with two roots, a child under
\* the first root and a grandchild that is left out: 1, 2, 3 for the rows
\* 1 (root), 2 (child of 1), 3 (root), 4 (child of 2).
C6_Witness ==
    \E c \in Clients :
        /\ TreeAnswered(c)
        /\ MaxDepthOf(req[c]) = 2
        /\ ParentOf(1) = NULL /\ ParentOf(2) = 1
        /\ ParentOf(3) = NULL /\ ParentOf(4) = 2
        /\ BodyIds(c) = <<1, 2, 3>>

\* ---------------------------------------------------------------- C8
\* C8: a request without the X-API-Key header or with another key than the
\* static one ends in a 403 with an empty body, no session acquired, no
\* handler called and no store query run.
C8_BadKeyIsForbiddenBeforeAnyQuery ==
    \A c \in Clients :
        (pc[c] # "idle" /\ req[c].key # API_KEY) =>
            /\ pc[c] \in {"routed", "done"}
            /\ queries[c] = 0
            /\ session[c] = "none"
            /\ returned[c] = NoReturn
            /\ pc[c] = "done" =>
                  response[c] = [status |-> 403, kind |-> "error", body |-> <<>>]

\* A request without the header, on the route of the tree, answered 403.
C8_Witness ==
    \E c \in Clients :
        /\ pc[c] = "done"
        /\ req[c].key = NoHeader
        /\ PathIs(c, ActivityTreePath)
        /\ response[c].status = 403
        /\ queries[c] = 0

\* ---------------------------------------------------------------- C9
InFlight(c) == pc[c] \in {"open", "responded"}

\* C9: a session is open only while its request is between get_db and its
\* release; a request that has ended (200, 404, 422 or 500) holds none, and
\* the open sessions are exactly those of the requests in flight, so none is
\* open when no request is.
C9_SessionsReleasedOnEveryExit ==
    /\ \A c \in Clients : (session[c] = "open") <=> InFlight(c)
    /\ \A c \in Clients :
          (pc[c] = "done" /\ response[c].status # 403) => session[c] = "closed"
    /\ handles = Cardinality({c \in Clients : InFlight(c)})

\* One request ended by a failure inside its handler with its session
\* closed, while another request still holds its own.
C9_Witness ==
    \E c, d \in Clients :
        /\ pc[c] = "done"
        /\ response[c].status = 500
        /\ returned[c] = NoReturn
        /\ session[c] = "closed"
        /\ pc[d] = "open"
        /\ handles = 1

\* ---------------------------------------------------------------- C10
\* No activity is its own ancestor.
RECURSIVE AncestorAt(_, _)
AncestorAt(a, k) ==
    IF a \notin DOMAIN activities THEN NULL
    ELSE IF k = 0 THEN a
    ELSE AncestorAt(ParentOf(a), k - 1)

Acyclic ==
    \A a \in DOMAIN activities :
        \A k \in 1..Cardinality(DOMAIN activities) : AncestorAt(a, k) # a

WalkLevelsBounded ==
    LET n == Cardinality(DOMAIN activities)
    IN /\ Len(stack) <= 3
       /\ \A i \in 1..Len(stack) : stack[i].depth = i - 1
       /\ calls <= 1 + n + n * n + n * n * n
       /\ Len(walked) <= 1 + n + n * n
       /\ WalkDone => walked = get_descendants(walked[1], 0)
       /\ Acyclic => NoDuplicates(walked)

\* C10: on every parent relation, cyclic ones included, get_descendants
\* never has a call iterating below level 2, makes a bounded number of calls
\* and returns; on an acyclic hierarchy its list holds no id twice.
C10_WalkTerminatesWithinTwoLevels == []WalkLevelsBounded /\ <>WalkDone

\* A finished walk over a self-parent activity, whose list repeats the id.
C10_Witness ==
    /\ WalkDone
    /\ ParentOf(1) = 1
    /\ walked[1] = 1
    /\ ~NoDuplicates(walked)
    /\ ~Acyclic

====
